---- MODULE Spec2Model ----
(***************************************************************************)
(* Model of the BPE learner / tokenizer (BPEProcessor, StandardBPE) and of *)
(* the sliding-window co-occurrence engine (CooccurrenceMatrix).           *)
(*                                                                         *)
(* A character is a one-element TLA+ string; the sentinels "<s>", "</s>"   *)
(* and "</w>" are atoms (the input alphabet holds none of their            *)
(* characters).  A token is the sequence of its characters, so two tokens  *)
(* are equal exactly when their Python strings are.  A vocabulary key (a   *)
(* Python string of tokens joined by single spaces) is the sequence of the *)
(* pieces between the single spaces: the empty piece <<>> appears only in  *)
(* BPEProcessor's framing of the empty sequence, "<s>  </s>".  Python      *)
(* dicts keep insertion order, so every dict whose order the code depends  *)
(* on is a sequence of records.                                            *)
(***************************************************************************)
EXTENDS Integers, Sequences, FiniteSets, TLC

\* ------------------------------------------------------------------ bounds
MaxSeqLen == 3
MaxCorpus == 2
MaxChars == 4
MaxMerges == 2
MaxCalls == 2
MaxRules == 2
MaxStreams == 2
MaxTokens == 3
MaxWindow == 2
MaxMinCount == 2
MaxBuilds == 2
MaxComputes == 2
MaxLong == 6
MaxWideWindow == 3

\* ----------------------------------------------------------- the alphabet
BACKSLASH == "\\"
Letters == {"A", "B"}
Alphabet == Letters \cup {BACKSLASH}
BOS == "<s>"
EOS == "</s>"
EOW == "</w>"
Kinds == {"BPEProcessor", "StandardBPE"}

RECURSIVE SeqsUpTo(_, _)
SeqsUpTo(S, k) ==
  IF k = 0 THEN {<<>>}
  ELSE LET shorter == SeqsUpTo(S, k - 1)
       IN  shorter \cup {Append(s, c) : s \in shorter, c \in S}

\* the lists of at most m sequences over S that hold at most c elements
\* together
RECURSIVE ListsUpTo(_, _, _)
ListsUpTo(S, m, c) ==
  IF m = 0 THEN {<<>>}
  ELSE {<<>>} \cup
       UNION {{<<s>> \o rest : rest \in ListsUpTo(S, m - 1, c - Len(s))}
              : s \in SeqsUpTo(S, c)}

Seqs == SeqsUpTo(Alphabet, MaxSeqLen)

\* the corpora a learner is given: at most MaxCorpus sequences holding at
\* most MaxChars characters together; StandardBPE gets its words from
\* str.split(), which never yields an empty word
Corpora(k) ==
  {c \in ListsUpTo(Alphabet, MaxCorpus, MaxChars) :
      k = "StandardBPE" => \A j \in 1..Len(c) : c[j] # <<>>}

VARIABLES
  kind,         \* which class the object is
  num_merges,   \* self.num_merges
  bpe_codes,    \* self.bpe_codes
  vocab,        \* the training state: self.vocab / the local vocab
  final_vocab,  \* StandardBPE.self.vocab, the set of final tokens
  sequences,    \* the corpus handed to learn_bpe
  pc,           \* position of learn_bpe: "idle", "learning", "raised"
  i,            \* loop index of learn_bpe
  calls,        \* number of learn_bpe calls started on this object
  stopped,      \* how the last learn_bpe left its loop: "break" or "limit"
  prev_vocab,   \* training state before the last merge iteration
  sequence,     \* argument of apply_bpe
  word,         \* local of apply_bpe
  n,            \* number of rules apply_bpe has replayed
  apc,          \* position of apply_bpe
  prev_word,    \* word before the last replayed rule
  window_size,          \* self.window_size
  min_count,            \* self.min_count
  token_sequences,      \* the token streams loaded for the matrix
  token_to_id,          \* self.token_to_id
  id_to_token,          \* self.id_to_token
  token_counts,         \* self.token_counts
  cooccurrence_counts,  \* self.cooccurrence_counts
  vocab_size,           \* self.vocab_size
  builds,               \* number of build_vocabulary calls
  computes,             \* number of compute_cooccurrence calls
  counted,              \* every stream handed to build_vocabulary so far
  processed             \* the filtered streams compute_cooccurrence has windowed

learnVars == <<num_merges, vocab, final_vocab, sequences, pc, i, calls,
               stopped, prev_vocab>>
applyVars == <<sequence, word, n, apc, prev_word>>
coocVars == <<window_size, min_count, token_sequences, token_to_id,
              id_to_token, token_counts, cooccurrence_counts, vocab_size,
              builds, computes, counted, processed>>
vars == <<kind, bpe_codes, learnVars, applyVars, coocVars>>

\* ------------------------------------------------------- framing, split()
Chars(seq) == [j \in 1..Len(seq) |-> <<seq[j]>>]

\* '<s> ' + ' '.join(sequence) + ' </s>'
SpacedSeq(seq) ==
  <<<<BOS>>>> \o (IF seq = <<>> THEN <<<<>>>> ELSE Chars(seq)) \o <<<<EOS>>>>

\* ' '.join(list(word) + ['</w>'])
get_word_tokens(w) == Chars(w) \o <<<<EOW>>>>

Frame(k, seq) ==
  IF k = "BPEProcessor" THEN SpacedSeq(seq) ELSE get_word_tokens(seq)

\* str.split(): the non-empty pieces
Split(w) == SelectSeq(w, LAMBDA t : t # <<>>)

\* ------------------------------------------------------------ Counter keys
KeyIndex(v, w) ==
  IF \E j \in 1..Len(v) : v[j].word = w
  THEN CHOOSE j \in 1..Len(v) : v[j].word = w
  ELSE 0

\* vocab[w] += 1
CountWord(v, w) ==
  LET j == KeyIndex(v, w)
  IN  IF j = 0 THEN Append(v, [word |-> w, freq |-> 1])
      ELSE [v EXCEPT ![j].freq = @ + 1]

\* v_out[w] = f
SetKey(v, w, f) ==
  LET j == KeyIndex(v, w)
  IN  IF j = 0 THEN Append(v, [word |-> w, freq |-> f])
      ELSE [v EXCEPT ![j].freq = f]

RECURSIVE PrepareFrom(_, _, _, _)
PrepareFrom(k, seqs, j, v) ==
  IF j > Len(seqs) THEN v
  ELSE PrepareFrom(k, seqs, j + 1, CountWord(v, Frame(k, seqs[j])))

prepare_sequences(k, seqs) == PrepareFrom(k, seqs, 1, <<>>)

\* ---------------------------------------------------------------- get_stats
PairIndex(pairs, p) ==
  IF \E j \in 1..Len(pairs) : pairs[j].pair = p
  THEN CHOOSE j \in 1..Len(pairs) : pairs[j].pair = p
  ELSE 0

\* a count of the entries' positions that leaves the frequency out
AddPairUnweighted(pairs, p, f) ==
  LET j == PairIndex(pairs, p)
  IN  IF j = 0 THEN Append(pairs, [pair |-> p, count |-> 1])
      ELSE [pairs EXCEPT ![j].count = @ + 1]

\* pairs[p] += freq
AddPair(pairs, p, f) ==
  LET j == PairIndex(pairs, p)
  IN  IF j = 0 THEN Append(pairs, [pair |-> p, count |-> f])
      ELSE [pairs EXCEPT ![j].count = @ + f]

RECURSIVE StatsWord(_, _, _, _)
StatsWord(pairs, symbols, f, j) ==
  IF j > Len(symbols) - 1 THEN pairs
  ELSE StatsWord(AddPair(pairs, <<symbols[j], symbols[j + 1]>>, f),
                 symbols, f, j + 1)

RECURSIVE StatsFrom(_, _, _)
StatsFrom(pairs, v, j) ==
  IF j > Len(v) THEN pairs
  ELSE StatsFrom(StatsWord(pairs, Split(v[j].word), v[j].freq, 1), v, j + 1)

get_stats(v) == StatsFrom(<<>>, v, 1)

\* a choice of the last key, in insertion order, that no other value exceeds
BestPairLast(pairs) ==
  LET j == CHOOSE j \in 1..Len(pairs) :
             /\ \A m \in 1..Len(pairs) : pairs[m].count <= pairs[j].count
             /\ \A m \in (j + 1)..Len(pairs) : pairs[m].count < pairs[j].count
  IN  pairs[j].pair

\* max(pairs, key=pairs.get): the first key, in insertion order, whose
\* value no other value exceeds
BestPair(pairs) ==
  LET j == CHOOSE j \in 1..Len(pairs) :
             /\ \A m \in 1..Len(pairs) : pairs[m].count <= pairs[j].count
             /\ \A m \in 1..(j - 1) : pairs[m].count < pairs[j].count
  IN  pairs[j].pair

\* ------------------------------------------------------ the regex and sub()
\* re.sub parses the replacement ''.join(pair) as a template: "\\\\" stands
\* for one backslash, a backslash before an ASCII letter that is no escape,
\* or at the end, is an error, and a backslash before '<' stays as it is
RECURSIVE ExpandFrom(_, _)
ExpandFrom(t, j) ==
  IF j > Len(t) THEN [ok |-> TRUE, text |-> <<>>]
  ELSE
    LET keep(c, next) ==
          LET rest == ExpandFrom(t, next)
          IN  [ok |-> rest.ok, text |-> <<c>> \o rest.text]
    IN  IF t[j] # BACKSLASH THEN keep(t[j], j + 1)
        ELSE IF j = Len(t) THEN [ok |-> FALSE, text |-> <<>>]
        ELSE IF t[j + 1] = BACKSLASH THEN keep(BACKSLASH, j + 2)
        ELSE IF t[j + 1] \in Letters THEN [ok |-> FALSE, text |-> <<>>]
        ELSE keep(BACKSLASH, j + 1)

Template(pair) == ExpandFrom(pair[1] \o pair[2], 1)

\* a sub() whose pattern accepts any token after left
RECURSIVE SubFromAnyRight(_, _, _, _)
SubFromAnyRight(pair, repl, w, j) ==
  IF j > Len(w) THEN <<>>
  ELSE IF j < Len(w) /\ w[j] = pair[1]
       THEN <<repl>> \o SubFromAnyRight(pair, repl, w, j + 2)
       ELSE <<w[j]>> \o SubFromAnyRight(pair, repl, w, j + 1)

\* p.sub(repl, word) with p = (?<!\S) left ' ' right (?!\S): the matches are
\* whole pieces left, right next to each other, found from the left without
\* overlap
\* a sub() that stops after its first match (count=1)
RECURSIVE SubFromOnce(_, _, _, _)
SubFromOnce(pair, repl, w, j) ==
  IF j > Len(w) THEN <<>>
  ELSE IF j < Len(w) /\ w[j] = pair[1] /\ w[j + 1] = pair[2]
       THEN <<repl>> \o SubSeq(w, j + 2, Len(w))
       ELSE <<w[j]>> \o SubFromOnce(pair, repl, w, j + 1)

RECURSIVE SubFrom(_, _, _, _)
SubFrom(pair, repl, w, j) ==
  IF j > Len(w) THEN <<>>
  ELSE IF j < Len(w) /\ w[j] = pair[1] /\ w[j + 1] = pair[2]
       THEN <<repl>> \o SubFrom(pair, repl, w, j + 2)
       ELSE <<w[j]>> \o SubFrom(pair, repl, w, j + 1)

SubAnyRight(pair, w) ==
  LET t == Template(pair)
  IN  IF t.ok THEN [ok |-> TRUE, word |-> SubFromAnyRight(pair, t.text, w, 1)]
      ELSE [ok |-> FALSE, word |-> w]

Sub(pair, w) ==
  LET t == Template(pair)
  IN  IF t.ok THEN [ok |-> TRUE, word |-> SubFrom(pair, t.text, w, 1)]
      ELSE [ok |-> FALSE, word |-> w]

\* -------------------------------------------------------------- merge_vocab
RECURSIVE MergeFrom(_, _, _, _)
MergeFrom(pair, v_in, j, v_out) ==
  IF j > Len(v_in) THEN [ok |-> TRUE, vocab |-> v_out]
  ELSE LET s == Sub(pair, v_in[j].word)
       IN  IF s.ok
           THEN MergeFrom(pair, v_in, j + 1, SetKey(v_out, s.word, v_in[j].freq))
           ELSE [ok |-> FALSE, vocab |-> v_in]

merge_vocab(pair, v_in) == MergeFrom(pair, v_in, 1, <<>>)

\* ---------------------------------------------------------------- apply_bpe
RECURSIVE ApplyFrom(_, _, _)
ApplyFrom(codes, w, j) ==
  IF j > Len(codes) THEN [ok |-> TRUE, word |-> w]
  ELSE LET s == Sub(codes[j], w)
       IN  IF s.ok THEN ApplyFrom(codes, s.word, j + 1)
           ELSE [ok |-> FALSE, word |-> w]

apply_bpe(k, codes, seq) == ApplyFrom(codes, Frame(k, seq), 1)

\* self.vocab.update(word.split()) over the final training state
TokenSet(v) == UNION {{Split(v[j].word)[m] : m \in 1..Len(Split(v[j].word))}
                      : j \in 1..Len(v)}

\* ===================================================== the learner object
NoCall ==
  /\ sequence = <<>>
  /\ word = <<>>
  /\ n = 0
  /\ apc = "none"
  /\ prev_word = <<>>

NoMatrix ==
  /\ window_size = 0
  /\ min_count = 1
  /\ token_sequences = <<>>
  /\ token_to_id = <<>>
  /\ id_to_token = <<>>
  /\ token_counts = <<>>
  /\ cooccurrence_counts = <<>>
  /\ vocab_size = 0
  /\ builds = 0
  /\ computes = 0
  /\ counted = <<>>
  /\ processed = {}

\* __init__, and the corpus the program has read
Init ==
  /\ kind \in Kinds
  /\ num_merges \in 0..MaxMerges
  /\ sequences \in Corpora(kind)
  /\ bpe_codes = <<>>
  /\ vocab = <<>>
  /\ final_vocab = {}
  /\ pc = "idle"
  /\ i = 0
  /\ calls = 0
  /\ stopped = "none"
  /\ prev_vocab = <<>>
  /\ NoCall
  /\ NoMatrix

\* learn_bpe up to its loop: the training state is built anew, bpe_codes is
\* left as it is; the result of an earlier apply_bpe belongs to the old rules
\* and is dropped
LearnStart ==
  /\ pc \in {"idle", "raised"}
  /\ calls < MaxCalls
  /\ pc' = "learning"
  /\ calls' = calls + 1
  /\ vocab' = prepare_sequences(kind, sequences)
  /\ prev_vocab' = prepare_sequences(kind, sequences)
  /\ i' = 0
  /\ stopped' = "none"
  /\ sequence' = <<>>
  /\ word' = <<>>
  /\ n' = 0
  /\ apc' = "none"
  /\ prev_word' = <<>>
  /\ UNCHANGED <<kind, num_merges, bpe_codes, final_vocab, sequences>>
  /\ UNCHANGED coocVars

\* one iteration of the loop that merges
LearnMerge ==
  /\ pc = "learning"
  /\ i < num_merges
  /\ get_stats(vocab) # <<>>
  /\ LET best_pair == BestPair(get_stats(vocab))
         merged == merge_vocab(best_pair, vocab)
     IN  /\ merged.ok
         /\ vocab' = merged.vocab
         /\ bpe_codes' = Append(bpe_codes, best_pair)
  /\ prev_vocab' = vocab
  /\ i' = i + 1
  /\ UNCHANGED <<kind, num_merges, final_vocab, sequences, pc, calls, stopped>>
  /\ UNCHANGED <<applyVars, coocVars>>

\* one iteration in which p.sub raises re.error: learn_bpe is left by the
\* exception, nothing is assigned
LearnRaise ==
  /\ pc = "learning"
  /\ i < num_merges
  /\ get_stats(vocab) # <<>>
  /\ ~ merge_vocab(BestPair(get_stats(vocab)), vocab).ok
  /\ pc' = "raised"
  /\ UNCHANGED <<kind, num_merges, bpe_codes, vocab, final_vocab, sequences,
                 i, calls, stopped, prev_vocab>>
  /\ UNCHANGED <<applyVars, coocVars>>

\* the loop ends, by break or by exhausting range(num_merges), and learn_bpe
\* returns; StandardBPE stores the set of final tokens
LearnReturn ==
  /\ pc = "learning"
  /\ \/ i >= num_merges /\ stopped' = "limit"
     \/ i < num_merges /\ get_stats(vocab) = <<>> /\ stopped' = "break"
  /\ pc' = "idle"
  /\ final_vocab' = IF kind = "StandardBPE" THEN TokenSet(vocab) ELSE final_vocab
  /\ UNCHANGED <<kind, num_merges, bpe_codes, vocab, sequences, i, calls,
                 prev_vocab>>
  /\ UNCHANGED <<applyVars, coocVars>>

\* apply_bpe on one of the sequences the program has read
ApplyBpe ==
  /\ pc = "idle"
  /\ \E j \in 1..Len(sequences) :
       LET r == apply_bpe(kind, bpe_codes, sequences[j])
       IN  /\ sequence' = sequences[j]
           /\ word' = r.word
           /\ apc' = IF r.ok THEN "returned" ELSE "raised"
  /\ n' = Len(bpe_codes)
  /\ prev_word' = <<>>
  /\ UNCHANGED <<kind, bpe_codes, learnVars, coocVars>>

Next == LearnStart \/ LearnMerge \/ LearnRaise \/ LearnReturn \/ ApplyBpe

Spec == Init /\ [][Next]_vars

\* ============================================ apply_bpe, rule by rule
\* the rules a caller may have stored in bpe_codes
RulePairs ==
  { <<<<"A">>, <<"A">>>>, <<<<"A", "A">>, <<"A">>>>, <<<<"A">>, <<"B">>>>,
    <<<<BOS>>, <<"A">>>>, <<<<BOS>>, <<EOS>>>>, <<<<"A">>, <<EOW>>>>,
    <<<<BACKSLASH>>, <<BACKSLASH>>>>, <<<<"A">>, <<BACKSLASH>>>> }

InitApply ==
  /\ kind \in Kinds
  /\ bpe_codes \in SeqsUpTo(RulePairs, MaxRules)
  /\ sequence \in Seqs
  /\ word = Frame(kind, sequence)
  /\ prev_word = Frame(kind, sequence)
  /\ n = 0
  /\ apc = "applying"
  /\ num_merges = 0
  /\ sequences = <<>>
  /\ vocab = <<>>
  /\ final_vocab = {}
  /\ pc = "idle"
  /\ i = 0
  /\ calls = 0
  /\ stopped = "none"
  /\ prev_vocab = <<>>
  /\ NoMatrix

\* one iteration of the replay loop
ApplyStep ==
  /\ apc = "applying"
  /\ n < Len(bpe_codes)
  /\ LET s == Sub(bpe_codes[n + 1], word)
     IN  /\ s.ok
         /\ word' = s.word
  /\ prev_word' = word
  /\ n' = n + 1
  /\ UNCHANGED <<kind, bpe_codes, learnVars, coocVars, sequence, apc>>

\* p.sub raises re.error
ApplyRaise ==
  /\ apc = "applying"
  /\ n < Len(bpe_codes)
  /\ ~ Sub(bpe_codes[n + 1], word).ok
  /\ apc' = "raised"
  /\ UNCHANGED <<kind, bpe_codes, learnVars, coocVars, sequence, word, n,
                 prev_word>>

\* return word.split()
ApplyReturn ==
  /\ apc = "applying"
  /\ n = Len(bpe_codes)
  /\ apc' = "returned"
  /\ UNCHANGED <<kind, bpe_codes, learnVars, coocVars, sequence, word, n,
                 prev_word>>

NextApply == ApplyStep \/ ApplyRaise \/ ApplyReturn

SpecApply == InitApply /\ [][NextApply]_vars

\* what apply_bpe returns
ReturnedTokens == Split(word)

\* ============================================== the co-occurrence matrix
TokenUniverse == {<<"A", "A">>, <<"B">>}

\* the collections of token streams the program may have loaded
StreamCollections == ListsUpTo(TokenUniverse, MaxStreams, MaxTokens)

\* A weight is a Python float, an IEEE double: it is kept as the exact integer
\* number of units of 2^-55 it stands for, in two limbs, hi * 2^30 + lo
\* (every weight below 64 that the sums of 1.0 / distance, distance <= 8, can
\* give is a whole number of these units)
LimbBase == 1073741824
HalfLimb == 32768
Zero == [hi |-> 0, lo |-> 0]

\* how many bits the number with this high limb has beyond the 53 of a double
RECURSIVE Excess(_)
Excess(hi) == IF hi < 8388608 THEN 0 ELSE 1 + Excess(hi \div 2)

\* hi * 2^30 + lo + num / den rounded to 53 significant bits, to the nearest,
\* ties to the even neighbour
Round53(hi, lo, num, den) ==
  LET p == 2 ^ Excess(hi)
      r == lo % p
      twice == 2 * (r * den + num)
      up == \/ twice > p * den
            \/ twice = p * den /\ (lo \div p) % 2 = 1
      rounded == lo - r + (IF up THEN p ELSE 0)
  IN  [hi |-> hi + rounded \div LimbBase, lo |-> rounded % LimbBase]

\* x + y on floats
FloatAdd(x, y) ==
  LET low == x.lo + y.lo
  IN  Round53(x.hi + y.hi + low \div LimbBase, low % LimbBase, 0, 1)

\* 1.0 / d: the long division of 2^55 by d, rounded
OneOver(d) ==
  LET first == (33554432 % d) * HalfLimb
      second == (first % d) * HalfLimb
  IN  Round53(33554432 \div d, (first \div d) * HalfLimb + second \div d,
              second % d, d)

\* code point of a character
Ord(c) == CASE c = "A" -> 65 [] c = "B" -> 66 [] c = BACKSLASH -> 92

\* a < b on Python strings
RECURSIVE StrLess(_, _)
StrLess(a, b) ==
  IF a = <<>> THEN b # <<>>
  ELSE IF b = <<>> THEN FALSE
  ELSE IF Ord(Head(a)) < Ord(Head(b)) THEN TRUE
  ELSE IF Ord(Head(a)) > Ord(Head(b)) THEN FALSE
  ELSE StrLess(Tail(a), Tail(b))

\* a sort that puts shorter tokens first
RECURSIVE SortedByLength(_)
SortedByLength(S) ==
  IF S = {} THEN <<>>
  ELSE LET m == CHOOSE x \in S : \A y \in S \ {x} :
                   \/ Len(x) < Len(y)
                   \/ Len(x) = Len(y) /\ StrLess(x, y)
       IN  <<m>> \o SortedByLength(S \ {m})

\* sorted(filtered_tokens.keys())
RECURSIVE Sorted(_)
Sorted(S) ==
  IF S = {} THEN <<>>
  ELSE LET m == CHOOSE x \in S : \A y \in S \ {x} : StrLess(x, y)
       IN  <<m>> \o Sorted(S \ {m})

\* self.token_counts[token] += 1 for every token of a stream
RECURSIVE CountStream(_, _, _)
CountStream(tc, stream, j) ==
  IF j > Len(stream) THEN tc
  ELSE LET t == stream[j]
       IN  CountStream(IF t \in DOMAIN tc THEN [tc EXCEPT ![t] = @ + 1]
                       ELSE tc @@ (t :> 1),
                       stream, j + 1)

RECURSIVE CountStreams(_, _, _)
CountStreams(tc, streams, k) ==
  IF k > Len(streams) THEN tc
  ELSE CountStreams(CountStream(tc, streams[k], 1), streams, k + 1)

FilteredTokens(tc, mc) == {t \in DOMAIN tc : tc[t] >= mc}

\* token_ids of one stream: unknown tokens are skipped
TokenIds(stream, t2i) ==
  LET known == SelectSeq(stream, LAMBDA t : t \in DOMAIN t2i)
  IN  [j \in 1..Len(known) |-> t2i[known[j]]]

Min2(a, b) == IF a <= b THEN a ELSE b
Max2(a, b) == IF a >= b THEN a ELSE b
Abs(a) == IF a >= 0 THEN a ELSE -a

\* self.cooccurrence_counts[pair] += weight
AddWeight(tbl, pair, w) ==
  IF pair \in DOMAIN tbl THEN [tbl EXCEPT ![pair] = FloatAdd(@, w)]
  ELSE tbl @@ (pair :> FloatAdd(Zero, w))

\* the loop over j in range(start, end), positions counted from 1
RECURSIVE ContextFrom(_, _, _, _, _)
ContextFrom(tbl, ids, c, j, last) ==
  IF j > last THEN tbl
  ELSE IF c # j
       THEN ContextFrom(
              AddWeight(tbl, <<Min2(ids[c], ids[j]), Max2(ids[c], ids[j])>>,
                        OneOver(Abs(c - j))),
              ids, c, j + 1, last)
       ELSE ContextFrom(tbl, ids, c, j + 1, last)

\* a window that reaches one position too far to the right
RECURSIVE CenterFromWide(_, _, _, _)
CenterFromWide(tbl, ids, c, w) ==
  IF c > Len(ids) THEN tbl
  ELSE CenterFromWide(ContextFrom(tbl, ids, c, Max2(1, c - w),
                                  Min2(Len(ids), c + w + 1)),
                      ids, c + 1, w)

\* the loop over the centers of one stream
RECURSIVE CenterFrom(_, _, _, _)
CenterFrom(tbl, ids, c, w) ==
  IF c > Len(ids) THEN tbl
  ELSE CenterFrom(ContextFrom(tbl, ids, c, Max2(1, c - w),
                              Min2(Len(ids), c + w)),
                  ids, c + 1, w)

\* the loop over the streams
RECURSIVE StreamsFrom(_, _, _, _, _)
StreamsFrom(tbl, streams, k, t2i, w) ==
  IF k > Len(streams) THEN tbl
  ELSE StreamsFrom(CenterFrom(tbl, TokenIds(streams[k], t2i), 1, w),
                   streams, k + 1, t2i, w)

NoLearner ==
  /\ kind = "BPEProcessor"
  /\ bpe_codes = <<>>
  /\ num_merges = 0
  /\ sequences = <<>>
  /\ vocab = <<>>
  /\ final_vocab = {}
  /\ pc = "idle"
  /\ i = 0
  /\ calls = 0
  /\ stopped = "none"
  /\ prev_vocab = <<>>

\* __init__, and the token streams the program has loaded
InitCooc ==
  /\ window_size \in -1..MaxWindow
  /\ min_count \in 1..MaxMinCount
  /\ token_sequences \in StreamCollections
  /\ token_to_id = <<>>
  /\ id_to_token = <<>>
  /\ token_counts = <<>>
  /\ cooccurrence_counts = <<>>
  /\ vocab_size = 0
  /\ builds = 0
  /\ computes = 0
  /\ counted = <<>>
  /\ processed = {}
  /\ NoLearner
  /\ NoCall

\* build_vocabulary(token_sequences)
BuildVocabulary ==
  /\ builds < MaxBuilds
  /\ LET tc == CountStreams(token_counts, token_sequences, 1)
         ordered == Sorted(FilteredTokens(tc, min_count))
         ranked == {ordered[k] : k \in 1..Len(ordered)}
     IN  /\ token_counts' = tc
         /\ vocab_size' = Cardinality(FilteredTokens(tc, min_count))
         /\ token_to_id' =
              [t \in DOMAIN token_to_id \cup ranked |->
                 IF t \in ranked
                 THEN (CHOOSE k \in 1..Len(ordered) : ordered[k] = t) - 1
                 ELSE token_to_id[t]]
         /\ id_to_token' =
              [k \in DOMAIN id_to_token \cup 0..(Len(ordered) - 1) |->
                 IF k < Len(ordered) THEN ordered[k + 1] ELSE id_to_token[k]]
  /\ builds' = builds + 1
  /\ counted' = counted \o token_sequences
  /\ UNCHANGED <<window_size, min_count, token_sequences, cooccurrence_counts,
                 computes, processed>>
  /\ UNCHANGED <<kind, bpe_codes, learnVars, applyVars>>

\* compute_cooccurrence(token_sequences)
ComputeCooccurrence ==
  /\ computes < MaxComputes
  /\ cooccurrence_counts' =
       StreamsFrom(cooccurrence_counts, token_sequences, 1, token_to_id,
                   window_size)
  /\ computes' = computes + 1
  /\ processed' = processed \cup
       {[stream |-> token_sequences[k], mapping |-> token_to_id,
         call |-> computes + 1] : k \in 1..Len(token_sequences)}
  /\ UNCHANGED <<window_size, min_count, token_sequences, token_to_id,
                 id_to_token, token_counts, vocab_size, builds, counted>>
  /\ UNCHANGED <<kind, bpe_codes, learnVars, applyVars>>

NextCooc == BuildVocabulary \/ ComputeCooccurrence

SpecCooc == InitCooc /\ [][NextCooc]_vars

\* the matrix with wider windows over longer streams, every token kept
InitLong ==
  /\ window_size \in 1..MaxWideWindow
  /\ min_count = 1
  /\ token_sequences \in ListsUpTo(TokenUniverse, MaxStreams, MaxLong)
  /\ token_to_id = <<>>
  /\ id_to_token = <<>>
  /\ token_counts = <<>>
  /\ cooccurrence_counts = <<>>
  /\ vocab_size = 0
  /\ builds = 0
  /\ computes = 0
  /\ counted = <<>>
  /\ processed = {}
  /\ NoLearner
  /\ NoCall

SpecCoocLong == InitLong /\ [][NextCooc]_vars

\* ================================================================ claims
\* ''.join(tokens)
RECURSIVE Concat(_)
Concat(ts) == IF ts = <<>> THEN <<>> ELSE Head(ts) \o Concat(Tail(ts))

\* the text left when the sentinel markers are taken off both ends
StripSentinels(text) ==
  LET a == IF text # <<>> /\ Head(text) = BOS THEN Tail(text) ELSE text
  IN  IF a # <<>> /\ a[Len(a)] \in {EOS, EOW} THEN SubSeq(a, 1, Len(a) - 1)
      ELSE a

\* number of tokens in the training state
RECURSIVE TokenTotal(_)
TokenTotal(v) ==
  IF v = <<>> THEN 0 ELSE Len(Split(Head(v).word)) + TokenTotal(Tail(v))

\* new is old with some runs of adjacent tokens joined
RECURSIVE JoinsAdjacent(_, _)
JoinsAdjacent(old, new) ==
  IF new = <<>> THEN old = <<>>
  ELSE \E k \in 1..Len(old) :
         /\ Concat(SubSeq(old, 1, k)) = Head(new)
         /\ JoinsAdjacent(SubSeq(old, k + 1, Len(old)), Tail(new))

PairCount(pairs, p) ==
  IF PairIndex(pairs, p) = 0 THEN 0 ELSE pairs[PairIndex(pairs, p)].count

\* the rules one run of learn_bpe's loop appends to codes, from vocabulary v
\* with k iterations left
RECURSIVE LearnLoop(_, _, _)
LearnLoop(v, k, codes) ==
  IF k = 0 \/ get_stats(v) = <<>> THEN codes
  ELSE LET best_pair == BestPair(get_stats(v))
           merged == merge_vocab(best_pair, v)
       IN  IF merged.ok
           THEN LearnLoop(merged.vocab, k - 1, Append(codes, best_pair))
           ELSE codes

\* the rule list of one run of learn_bpe on the corpus, with the merge count
LearnedRules == LearnLoop(prepare_sequences(kind, sequences), num_merges, <<>>)

\* C1: every run of learn_bpe on the same corpus with the same merge count
\* leaves the same ordered rule list in bpe_codes, the one a single run
\* learns, and apply_bpe with it gives the same tokens for a sequence
C1_Determinism ==
  /\ (pc = "idle" /\ calls >= 1) => bpe_codes = LearnedRules
  /\ (pc = "idle" /\ calls >= 1 /\ apc = "returned") =>
        word = apply_bpe(kind, LearnedRules, sequence).word

\* C2: whenever learn_bpe has returned, bpe_codes holds at most num_merges
\* rules, and fewer only when the loop was left because no pair remained
C2_RuleListBound ==
  (pc = "idle" /\ calls >= 1) =>
     /\ Len(bpe_codes) <= num_merges
     /\ Len(bpe_codes) < num_merges => stopped = "break"

\* C3: the tokens apply_bpe returns, concatenated and stripped of the
\* sentinel markers, are the input sequence, whatever the rules
C3_Reconstruction ==
  apc = "returned" => StripSentinels(Concat(ReturnedTokens)) = sequence

AAAA == <<"A", "A", "A", "A">>
AAAA_Learning ==
  kind = "StandardBPE" /\ sequences = <<AAAA>> /\ pc = "learning"
AAAA_Start ==
  /\ vocab = <<[word |-> <<<<"A">>, <<"A">>, <<"A">>, <<"A">>, <<EOW>>>>,
               freq |-> 1]>>
  /\ LET pairs == get_stats(vocab)
     IN  /\ PairCount(pairs, <<<<"A">>, <<"A">>>>) = 3
         /\ \A j \in 1..Len(pairs) :
              pairs[j].pair # <<<<"A">>, <<"A">>>> => pairs[j].count < 3

\* C4 as stated: learning on ["AAAA"] starts from A A A A </w> with
\* frequency 1, (A,A) has aggregate 3 and is the only maximum, and the first
\* merge leaves AA A </w>
C4_AsStated ==
  AAAA_Learning =>
     /\ i = 0 => AAAA_Start
     /\ i = 1 =>
          /\ bpe_codes[Len(bpe_codes)] = <<<<"A">>, <<"A">>>>
          /\ vocab = <<[word |-> <<<<"A", "A">>, <<"A">>, <<EOW>>>>,
                        freq |-> 1]>>

\* C4 amended: as above, but the first merge leaves AA AA </w>
C4_FirstMergeOfAAAA ==
  AAAA_Learning =>
     /\ i = 0 => AAAA_Start
     /\ i = 1 =>
          /\ bpe_codes[Len(bpe_codes)] = <<<<"A">>, <<"A">>>>
          /\ vocab = <<[word |-> <<<<"A", "A">>, <<"A", "A">>, <<EOW>>>>,
                        freq |-> 1]>>

\* C4 witness: the first merge of the AAAA run has been made
C4_Witness == AAAA_Learning /\ i = 1 /\ calls = 1

PairwiseDistinct(stream) ==
  \A p, q \in 1..Len(stream) : p # q => stream[p] # stream[q]

\* the key under which two ids are stored
Key(a, b) == <<Min2(a, b), Max2(a, b)>>

\* C5: after one compute_cooccurrence over a single stream of pairwise
\* distinct tokens, all in the vocabulary, every two tokens at distance
\* d <= window_size hold the weight 1/d
C5_InverseDistanceWeights ==
  \A r \in processed :
    (/\ computes = 1
     /\ Len(token_sequences) = 1
     /\ PairwiseDistinct(r.stream)
     /\ \A p \in 1..Len(r.stream) : r.stream[p] \in DOMAIN r.mapping)
    => \A p, q \in 1..Len(r.stream) :
         (p < q /\ q - p <= window_size) =>
           LET key == Key(r.mapping[r.stream[p]], r.mapping[r.stream[q]])
           IN  /\ key \in DOMAIN cooccurrence_counts
               /\ cooccurrence_counts[key] = OneOver(q - p)

\* C6: the table never holds a key pairing an id with itself, and no
\* weight is negative
C6_NoSelfPairs ==
  \A key \in DOMAIN cooccurrence_counts :
    /\ key[1] # key[2]
    /\ cooccurrence_counts[key].hi >= 0
    /\ cooccurrence_counts[key].lo >= 0

\* a stream with every token absent from the mapping deleted, as ids
RECURSIVE DeleteAbsent(_, _)
DeleteAbsent(stream, mapping) ==
  IF stream = <<>> THEN <<>>
  ELSE IF Head(stream) \in DOMAIN mapping
       THEN <<mapping[Head(stream)]>> \o DeleteAbsent(Tail(stream), mapping)
       ELSE DeleteAbsent(Tail(stream), mapping)

InSomeWindow(a, b) ==
  \E r \in processed :
    LET ids == DeleteAbsent(r.stream, r.mapping)
    IN  \E p, q \in 1..Len(ids) :
          /\ p # q
          /\ Abs(p - q) <= window_size
          /\ Key(ids[p], ids[q]) = <<a, b>>

\* C7: the table has an entry for the id pair {a,b} exactly when some
\* windowed stream, with the tokens absent from the id mapping deleted,
\* holds a and b at two different positions at most window_size apart; a
\* window_size <= 0 leaves the table empty
C7_WindowMembership ==
  /\ \A key \in DOMAIN cooccurrence_counts :
       key[1] <= key[2] /\ InSomeWindow(key[1], key[2])
  /\ \A a, b \in 0..Cardinality(TokenUniverse) :
       (a <= b /\ InSomeWindow(a, b)) => <<a, b>> \in DOMAIN cooccurrence_counts
  /\ window_size <= 0 => DOMAIN cooccurrence_counts = {}

\* C7 witness: a deleted token stood between two kept tokens, which the
\* window of size 1 has paired
C7_Witness ==
  /\ window_size = 1
  /\ \E r \in processed :
       \E p \in 1..(Len(r.stream) - 2) :
         /\ r.stream[p] \in DOMAIN r.mapping
         /\ r.stream[p + 1] \notin DOMAIN r.mapping
         /\ r.stream[p + 2] \in DOMAIN r.mapping
         /\ Key(r.mapping[r.stream[p]], r.mapping[r.stream[p + 2]])
              \in DOMAIN cooccurrence_counts

\* occurrences of a token in all the streams build_vocabulary was given
Occurrences(t) ==
  Cardinality({pos \in (1..Len(counted)) \X (1..MaxTokens) :
                 /\ pos[2] <= Len(counted[pos[1]])
                 /\ counted[pos[1]][pos[2]] = t})

KeptTokens == {t \in TokenUniverse : Occurrences(t) >= min_count}

C9_MonotoneRefinement ==
  /\ apc # "raised"
  /\ Len(Split(word)) <= Len(Split(prev_word))
  /\ JoinsAdjacent(Split(prev_word), Split(word))

\* C10: learn_bpe returns normally, every merge iteration lowers the number
\* of tokens in the training state, the loop is left early only when no
\* entry has two adjacent tokens, and an empty corpus gives an empty
\* training state and an empty rule list
C10_EarlyStopAndTermination ==
  /\ pc # "raised"
  /\ (pc = "learning" /\ i >= 1) => TokenTotal(vocab) < TokenTotal(prev_vocab)
  /\ stopped = "break" => \A j \in 1..Len(vocab) : Len(Split(vocab[j].word)) <= 1
  /\ (sequences = <<>> /\ calls >= 1 /\ pc = "idle") =>
        vocab = <<>> /\ bpe_codes = <<>>

\* the rule lists a run of learn_bpe leaves in bpe_codes; the program has no
\* other way of filling bpe_codes
LearnedByProcessor ==
  {LearnLoop(prepare_sequences("BPEProcessor", c), m, <<>>) :
     c \in Corpora("BPEProcessor"), m \in 0..MaxMerges}
LearnedByStandard ==
  {LearnLoop(prepare_sequences("StandardBPE", c), m, <<>>) :
     c \in Corpora("StandardBPE"), m \in 0..MaxMerges}
RulesAreLearned ==
  bpe_codes \in (IF kind = "BPEProcessor" THEN LearnedByProcessor
                 ELSE LearnedByStandard)

\* the characters that occur in a rule
RuleChars ==
  UNION {{bpe_codes[j][1][m] : m \in 1..Len(bpe_codes[j][1])} \cup
         {bpe_codes[j][2][m] : m \in 1..Len(bpe_codes[j][2])}
         : j \in 1..Len(bpe_codes)}

\* the positions of the sequence whose character occurs in no rule
UnknownPositions == {p \in 1..Len(sequence) : sequence[p] \notin RuleChars}

\* the rules replayed over a list of tokens
Replayed(w) == ApplyFrom(bpe_codes, w, 1).word

ReverseSeq(q) == [j \in 1..Len(q) |-> q[Len(q) + 1 - j]]
ReverseEach(streams) == [k \in 1..Len(streams) |-> ReverseSeq(streams[k])]

\* the table compute_cooccurrence leaves when it starts from an empty one
TableOf(streams) == StreamsFrom(<<>>, streams, 1, token_to_id, window_size)

\* C12: the table a first compute_cooccurrence leaves is the table of the
\* same streams each reversed, and every key (i,j) it holds has i <= j
C12_Symmetry ==
  [][(computes = 0 /\ computes' = 1) =>
        /\ cooccurrence_counts' = TableOf(ReverseEach(token_sequences))
        /\ \A key \in DOMAIN cooccurrence_counts' : key[1] <= key[2]]_vars

\* the positions of a token list at which the pair stands
PositionsOf(ts, p) == {m \in 1..(Len(ts) - 1) : <<ts[m], ts[m + 1]>> = p}

\* frequency times positions, summed over the entries
RECURSIVE Aggregate(_, _)
Aggregate(v, p) ==
  IF v = <<>> THEN 0
  ELSE Head(v).freq * Cardinality(PositionsOf(Split(Head(v).word), p))
       + Aggregate(Tail(v), p)

\* the pairs that stand somewhere in the training state
AdjacentPairs(v) ==
  UNION {{<<Split(v[j].word)[m], Split(v[j].word)[m + 1]>> :
            m \in 1..(Len(Split(v[j].word)) - 1)} : j \in 1..Len(v)}

\* C13: in every iteration the statistics hold exactly the adjacent pairs of
\* the training state, each once, with the sum over the entries of frequency
\* times number of positions, and the rule appended is a pair of maximal
\* aggregate
C13_GreedySelection ==
  i >= 1 =>
    LET pairs == get_stats(prev_vocab)
        best == bpe_codes[Len(bpe_codes)]
    IN  /\ {pairs[j].pair : j \in 1..Len(pairs)} = AdjacentPairs(prev_vocab)
        /\ \A j, k \in 1..Len(pairs) : pairs[j].pair = pairs[k].pair => j = k
        /\ \A j \in 1..Len(pairs) :
             pairs[j].count = Aggregate(prev_vocab, pairs[j].pair)
        /\ best \in AdjacentPairs(prev_vocab)
        /\ \A p \in AdjacentPairs(prev_vocab) :
             Aggregate(prev_vocab, p) <= Aggregate(prev_vocab, best)

\* C13 witness: the rule appended was not the first pair of the statistics,
\* and its aggregate came from more than one position
C13_Witness ==
  /\ i >= 1
  /\ bpe_codes[Len(bpe_codes)] # get_stats(prev_vocab)[1].pair
  /\ Aggregate(prev_vocab, bpe_codes[Len(bpe_codes)]) >= 2

\* a token list with every left, right met from the left replaced by the
\* one token left + right
RECURSIVE Joined(_, _)
Joined(ts, pair) ==
  IF ts = <<>> THEN <<>>
  ELSE IF Len(ts) >= 2 /\ ts[1] = pair[1] /\ ts[2] = pair[2]
       THEN <<pair[1] \o pair[2]>> \o Joined(SubSeq(ts, 3, Len(ts)), pair)
       ELSE <<Head(ts)>> \o Joined(Tail(ts), pair)

RECURSIVE FreqSum(_)
FreqSum(v) == IF v = <<>> THEN 0 ELSE Head(v).freq + FreqSum(Tail(v))

\* C14: a merge step keeps the entries, their order and their frequencies,
\* turns the tokens of every entry into the same tokens with each left,
\* right joined into left + right, and leaves no entry in which left stands
\* right before right
C14_MergePostcondition ==
  i >= 1 =>
    LET pair == bpe_codes[Len(bpe_codes)]
    IN  /\ Len(vocab) = Len(prev_vocab)
        /\ FreqSum(vocab) = FreqSum(prev_vocab)
        /\ \A j \in 1..Len(vocab) :
             /\ j <= Len(prev_vocab)
             /\ vocab[j].freq = prev_vocab[j].freq
             /\ Split(vocab[j].word) = Joined(Split(prev_vocab[j].word), pair)
             /\ PositionsOf(Split(vocab[j].word), pair) = {}

\* the key-wise sum of two tables
KeySum(t1, t2) ==
  [key \in DOMAIN t1 \cup DOMAIN t2 |->
     FloatAdd(IF key \in DOMAIN t1 THEN t1[key] ELSE Zero,
              IF key \in DOMAIN t2 THEN t2[key] ELSE Zero)]

\* the collections that hold the same streams in another order
Reorderings(streams) ==
  {[k \in 1..Len(streams) |-> streams[f[k]]] :
     f \in {g \in [1..Len(streams) -> 1..Len(streams)] :
              \A a, b \in 1..Len(streams) : g[a] = g[b] => a = b}}

\* C15: the table of a collection is the key-wise sum of the tables of its
\* two parts, wherever it is cut, it is the table of the same streams in any
\* other order, and a second compute_cooccurrence under the same id mapping
\* leaves the table of the two collections put together
C15_Additivity ==
  [][(computes' = computes + 1) =>
       /\ computes = 0 =>
            /\ cooccurrence_counts' = TableOf(token_sequences)
            /\ \A k \in 0..Len(token_sequences) :
                 TableOf(token_sequences) =
                   KeySum(TableOf(SubSeq(token_sequences, 1, k)),
                          TableOf(SubSeq(token_sequences, k + 1,
                                         Len(token_sequences))))
            /\ \A other \in Reorderings(token_sequences) :
                 TableOf(other) = TableOf(token_sequences)
       /\ (computes = 1 /\ \A r \in processed : r.mapping = token_to_id) =>
            cooccurrence_counts' = TableOf(token_sequences \o token_sequences)
     ]_vars

\* what apply_bpe gives for the training sequences, with the rules learned
ReplayOf(m) == apply_bpe(kind, bpe_codes, sequences[m])

\* the elements of a token list
Elements(ts) == {ts[m] : m \in 1..Len(ts)}

\* C16: when the first learn_bpe of an object has returned, apply_bpe of
\* every training sequence gives the tokens the training state holds for it,
\* the keys of the training state are exactly the results of apply_bpe over
\* the training sequences joined by single spaces, and the vocabulary of
\* StandardBPE is exactly the set of the tokens of these results
C16_ReplayAgreesWithTraining ==
  (calls = 1 /\ pc = "idle") =>
     /\ \A m \in 1..Len(sequences) :
          /\ ReplayOf(m).ok
          /\ \E j \in 1..Len(vocab) :
               Split(vocab[j].word) = Split(ReplayOf(m).word)
     /\ apc = "returned" =>
          \E j \in 1..Len(vocab) : Split(vocab[j].word) = ReturnedTokens
     /\ {vocab[j].word : j \in 1..Len(vocab)} =
          {Split(ReplayOf(m).word) : m \in 1..Len(sequences)}
     /\ kind = "StandardBPE" =>
          final_vocab = UNION {Elements(Split(ReplayOf(m).word)) :
                                 m \in 1..Len(sequences)}

\* p is met before q when the entries are read in their order, each from
\* the left
MetBefore(v, p, q) ==
  \E j \in 1..Len(v) :
    \E m \in PositionsOf(Split(v[j].word), p) :
      /\ \A k \in 1..(j - 1) : PositionsOf(Split(v[k].word), q) = {}
      /\ \A o \in PositionsOf(Split(v[j].word), q) : m < o

\* C17: the rule appended in an iteration is, of the pairs of maximal
\* aggregate, the one met first when the entries are read in their stored
\* order, each from the left; so the rules a run has appended are the ones
\* the corpus determines
C17_TieBreakFirstEncounter ==
  i >= 1 =>
    LET best == bpe_codes[Len(bpe_codes)]
        top == Aggregate(prev_vocab, best)
        met == AdjacentPairs(prev_vocab)
    IN  /\ best \in met
        /\ \A p \in met \ {best} :
             /\ Aggregate(prev_vocab, p) <= top
             /\ Aggregate(prev_vocab, p) = top => MetBefore(prev_vocab, best, p)
        /\ SubSeq(bpe_codes, Len(bpe_codes) - i + 1, Len(bpe_codes)) =
             LearnLoop(prepare_sequences(kind, sequences), i, <<>>)

\* C17 witness: a rule was appended in a second iteration where another pair
\* of the two or more entries had the same, maximal, aggregate
C17_Witness ==
  /\ i >= 2
  /\ Len(prev_vocab) >= 2
  /\ \E p \in AdjacentPairs(prev_vocab) \ {bpe_codes[Len(bpe_codes)]} :
       Aggregate(prev_vocab, p) = Aggregate(prev_vocab, bpe_codes[Len(bpe_codes)])

====
